---- MODULE Spec2Model ----
(***************************************************************************)
(* Model of poium.webdriver.Page: a page object whose methods forward to   *)
(* a wrapped selenium/appium driver.  The driver is modelled as the state  *)
(* the methods read and change (current context, available contexts,       *)
(* cookie jar) together with the log of the calls the last method issued   *)
(* on it.                                                                  *)
(***************************************************************************)
EXTENDS Integers, Sequences, FiniteSets, TLC

VARIABLES
    current_context,   \* driver.current_context
    contexts,          \* driver.contexts: available contexts, in listed order
    cookies,           \* the driver's cookie jar
    entry,             \* the state in which the last method was entered
    op,                \* the Page method called last, with its arguments
    calls,             \* the calls that method issued, in order
    raised,            \* the exception that method raised ("" when it returned)
    ret                \* the value that method returned

vars == <<current_context, contexts, cookies, entry, op, calls, raised, ret>>

----------------------------------------------------------------------------
(* Bounds *)

MaxContexts == 2     \* longest list of available contexts
MaxCookies == 2      \* longest cookie list passed to add_cookies
MaxArgs == 2         \* most extra arguments passed to execute_script
MaxCoord == 4        \* largest tap coordinate
MaxSec == 3          \* longest settle duration passed to top

----------------------------------------------------------------------------
(* Python values: every value carries its type; a str is the sequence of   *)
(* its characters.                                                         *)

None == [t |-> "NoneType"]
Str(chars) == [t |-> "str", s |-> chars]
PyInt(i) == [t |-> "int", i |-> i]
Dict(name, value) == [t |-> "dict", name |-> name, value |-> value]
List(items) == [t |-> "list", items |-> items]

isinstance(v, type) == v.t = type

\* A Page method as it is called: its name and its positional arguments.
Method(name, args) == [name |-> name, args |-> args]

\* A call issued on the driver (or on the time module): its name, its
\* positional arguments and what it answered.
Answered(name, args, result) == [name |-> name, args |-> args, result |-> result]
Call(name, args) == Answered(name, args, None)

\* All sequences over S of length at most n.
SeqUpTo(S, n) == UNION {[1..k -> S] : k \in 0..n}

\* Python's `sub in s` on strings: sub occurs in s as a contiguous run.
Contains(sub, s) ==
    \E i \in 0..(Len(s) - Len(sub)) : SubSeq(s, i + 1, i + Len(sub)) = sub

----------------------------------------------------------------------------
(* Context names *)

WEBVIEW == <<"W", "E", "B", "V", "I", "E", "W">>
NATIVE_APP == Str(<<"N", "A", "T", "I", "V", "E", "_", "A", "P", "P">>)
FLUTTER == Str(<<"F", "L", "U", "T", "T", "E", "R">>)
WEBVIEW_1 == Str(WEBVIEW \o <<"_", "1">>)
WEBVIEW_2 == Str(WEBVIEW \o <<"_", "2">>)
X_WEBVIEW == Str(<<"X", "_">> \o WEBVIEW)
webview_lower == Str(<<"w", "e", "b", "v", "i", "e", "w">>)
WEBVIE == Str(<<"W", "E", "B", "V", "I", "E">>)

ContextNames ==
    {NATIVE_APP, FLUTTER, WEBVIEW_1, WEBVIEW_2, X_WEBVIEW, webview_lower, WEBVIE}

----------------------------------------------------------------------------
(* The driver's context API *)

\* Reading driver.current_context / driver.contexts.
get_current_context == Answered("current_context", <<>>, current_context)
get_contexts == Answered("contexts", <<>>, List(contexts))

\* driver.switch_to.context(name): the driver enters the context when it is
\* one of the available ones and raises otherwise; the method that issued
\* the call does not catch, so the exception is the method's.
driver_switch_to_context(name, before) ==
    /\ calls' = Append(before, Call("switch_to.context", <<name>>))
    /\ IF \E i \in 1..Len(contexts) : contexts[i] = name
       THEN current_context' = name /\ raised' = ""
       ELSE current_context' = current_context /\ raised' = "NoSuchContextException"
    /\ ret' = None

\* The state a method is entered in: the driver's context and cookie jar,
\* and the method called just before with the exception it raised.
Entry ==
    [current_context |-> current_context, cookies |-> cookies,
     op |-> op.name, raised |-> raised]

\* Entering a Page method: the method and its arguments, and the state at
\* that moment.
enter(name, args) ==
    /\ op' = Method(name, args)
    /\ entry' = Entry

\* A method that ends without touching the driver any further.
finish(before, exception, value) ==
    /\ calls' = before
    /\ raised' = exception
    /\ ret' = value

----------------------------------------------------------------------------
(* Page.switch_to_app, Page.switch_to_flutter *)

\* switch_to_app without the comparison with the current context.
switch_to_app_unguarded ==
    /\ enter("switch_to_app", <<>>)
    /\ driver_switch_to_context(NATIVE_APP, <<get_current_context>>)
    /\ UNCHANGED <<contexts, cookies>>

switch_to_app ==
    /\ enter("switch_to_app", <<>>)
    /\ IF current_context # NATIVE_APP
       THEN driver_switch_to_context(NATIVE_APP, <<get_current_context>>)
       ELSE /\ finish(<<get_current_context>>, "", None)
            /\ UNCHANGED current_context
    /\ UNCHANGED <<contexts, cookies>>

switch_to_flutter ==
    /\ enter("switch_to_flutter", <<>>)
    /\ IF current_context # FLUTTER
       THEN driver_switch_to_context(FLUTTER, <<get_current_context>>)
       ELSE /\ finish(<<get_current_context>>, "", None)
            /\ UNCHANGED current_context
    /\ UNCHANGED <<contexts, cookies>>

----------------------------------------------------------------------------
(* Page.switch_to_web *)

\* The loop without its break: the last match wins.
RECURSIVE scan_contexts_no_break(_, _)
scan_contexts_no_break(all_context, i) ==
    IF i > Len(all_context)
    THEN [switch_to |-> <<>>, raised |-> "NameError"]
    ELSE LET later == scan_contexts_no_break(all_context, i + 1)
         IN  IF later.switch_to = <<>> /\ Contains(WEBVIEW, all_context[i].s)
             THEN [switch_to |-> <<all_context[i]>>, raised |-> ""]
             ELSE later

\* The loop without its else branch: nothing is raised when nothing matches.
RECURSIVE scan_contexts_no_else(_, _)
scan_contexts_no_else(all_context, i) ==
    IF i > Len(all_context)
    THEN [switch_to |-> <<>>, raised |-> ""]
    ELSE IF Contains(WEBVIEW, all_context[i].s)
         THEN [switch_to |-> <<all_context[i]>>, raised |-> ""]
         ELSE scan_contexts_no_else(all_context, i + 1)

\* The for/else loop over driver.contexts, from position i on: the contexts
\* it switches to, and the exception of its else branch, which runs when the
\* loop ends without a break.
RECURSIVE scan_contexts(_, _)
scan_contexts(all_context, i) ==
    IF i > Len(all_context)
    THEN [switch_to |-> <<>>, raised |-> "NameError"]
    ELSE IF Contains(WEBVIEW, all_context[i].s)
         THEN [switch_to |-> <<all_context[i]>>, raised |-> ""]
         ELSE scan_contexts(all_context, i + 1)

\* The scan of switch_to_web and what follows it.
scan_and_switch ==
    LET all_context == contexts
        scan == scan_contexts(all_context, 1)
    IN  IF scan.switch_to # <<>>
        THEN driver_switch_to_context(scan.switch_to[1],
                                      <<get_current_context, get_contexts>>)
        ELSE /\ finish(<<get_current_context, get_contexts>>, scan.raised, None)
             /\ UNCHANGED current_context

\* switch_to_web without the test of the current context.
switch_to_web_always_scans(context) ==
    /\ enter("switch_to_web", <<context>>)
    /\ IF context # None
       THEN driver_switch_to_context(context, <<get_current_context>>)
       ELSE scan_and_switch
    /\ UNCHANGED <<contexts, cookies>>

\* switch_to_web testing the current context before the explicit one.
switch_to_web_current_first(context) ==
    /\ enter("switch_to_web", <<context>>)
    /\ IF Contains(WEBVIEW, current_context.s)
       THEN /\ finish(<<get_current_context>>, "", None)
            /\ UNCHANGED current_context
       ELSE IF context # None
       THEN driver_switch_to_context(context, <<get_current_context>>)
       ELSE scan_and_switch
    /\ UNCHANGED <<contexts, cookies>>

switch_to_web_context(context) ==
    /\ enter("switch_to_web", <<context>>)
    /\ IF context # None
       THEN driver_switch_to_context(context, <<get_current_context>>)
       ELSE IF Contains(WEBVIEW, current_context.s)
       THEN /\ finish(<<get_current_context>>, "", None)
            /\ UNCHANGED current_context
       ELSE scan_and_switch
    /\ UNCHANGED <<contexts, cookies>>

switch_to_web == \E context \in {None} \cup ContextNames : switch_to_web_context(context)

----------------------------------------------------------------------------
(* Specification of the context methods *)

InitContext ==
    /\ current_context \in ContextNames
    /\ contexts \in SeqUpTo(ContextNames, MaxContexts)
    /\ cookies = {}
    /\ entry = [current_context |-> current_context, cookies |-> cookies,
                op |-> "__init__", raised |-> ""]
    /\ op = Method("__init__", <<>>)
    /\ calls = <<>>
    /\ raised = ""
    /\ ret = None

NextContext == switch_to_app \/ switch_to_flutter \/ switch_to_web

SpecContext == InitContext /\ [][NextContext]_vars

----------------------------------------------------------------------------
(* Page.execute_script and the methods built on it *)

\* The outcome of a method: the calls it issued, the exception it raised and
\* the value it returned.
Outcome(issued, exception, value) ==
    [calls |-> issued, raised |-> exception, ret |-> value]

\* execute_script without the test for a missing script.
self_execute_script_unchecked(js, args, result) ==
    Outcome(<<Answered("execute_script", <<js>> \o args, result)>>, "", result)

\* self.execute_script(js, *args), where result is the driver's answer to
\* the script.
self_execute_script(js, args, result) ==
    IF js = None
    THEN Outcome(<<>>, "ValueError", None)
    ELSE Outcome(<<Answered("execute_script", <<js>> \o args, result)>>, "", result)

\* str() of an integer: its decimal digits, with a sign when negative.
Digit(d) == CASE d = 0 -> "0" [] d = 1 -> "1" [] d = 2 -> "2" [] d = 3 -> "3"
              [] d = 4 -> "4" [] d = 5 -> "5" [] d = 6 -> "6" [] d = 7 -> "7"
              [] d = 8 -> "8" [] d = 9 -> "9"

RECURSIVE str_nat(_)
str_nat(n) == IF n < 10 THEN <<Digit(n)>> ELSE str_nat(n \div 10) \o <<Digit(n % 10)>>

str_int(i) == IF i < 0 THEN <<"-">> \o str_nat(0 - i) ELSE str_nat(i)

\* The text an f-string puts in place of {v}.
format(v) == IF isinstance(v, "int") THEN str_int(v.i) ELSE v.s

\* f"window.scrollTo({width},{height});"
scroll_js(width, height) ==
    Str(<<"w", "i", "n", "d", "o", "w", ".", "s", "c", "r", "o", "l", "l", "T", "o", "(">>
        \o format(width) \o <<",">> \o format(height) \o <<")", ";">>)

title_js ==
    Str(<<"r", "e", "t", "u", "r", "n", " ", "d", "o", "c", "u", "m", "e", "n", "t", ".",
          "t", "i", "t", "l", "e", ";">>)

url_js ==
    Str(<<"r", "e", "t", "u", "r", "n", " ", "d", "o", "c", "u", "m", "e", "n", "t", ".",
          "U", "R", "L", ";">>)

alert_js == Str(<<"a", "l", "e", "r", "t", "(", ")">>)

\* What a caller passes as a script, as a script argument or as a scroll
\* offset, and what the driver answers to a script.
Scripts == {None, title_js, alert_js}
ScriptArgs == {PyInt(1), Str(<<"a">>)}
Offsets == {None, PyInt(0), PyInt(120), PyInt(-5), Str(<<"7">>)}
DriverResults == {None, Str(<<"t">>), PyInt(3)}

\* A method that only has an outcome: the driver's state is as it was.
conclude(outcome) ==
    /\ calls' = outcome.calls
    /\ raised' = outcome.raised
    /\ ret' = outcome.ret
    /\ UNCHANGED <<current_context, contexts, cookies>>

execute_script ==
    \E js \in Scripts, args \in SeqUpTo(ScriptArgs, MaxArgs), result \in DriverResults :
        /\ enter("execute_script", <<js>> \o args)
        /\ conclude(self_execute_script(js, args, result))

\* window_scroll's outcome: the defaults, the script, and the call made
\* through self.execute_script, whose value is dropped.
window_scroll_outcome(width, height, result) ==
    LET w == IF width = None THEN Str(<<"0">>) ELSE width
        h == IF height = None THEN Str(<<"0">>) ELSE height
        js == scroll_js(w, h)
        done == self_execute_script(js, <<>>, result)
    IN  Outcome(done.calls, done.raised, None)

window_scroll ==
    \E width \in Offsets, height \in Offsets, result \in DriverResults :
        /\ enter("window_scroll", <<width, height>>)
        /\ conclude(window_scroll_outcome(width, height, result))

get_title_outcome(result) == self_execute_script(title_js, <<>>, result)

get_title ==
    \E result \in DriverResults :
        /\ enter("get_title", <<>>)
        /\ conclude(get_title_outcome(result))

get_url_outcome(result) == self_execute_script(url_js, <<>>, result)

get_url ==
    \E result \in DriverResults :
        /\ enter("get_url", <<>>)
        /\ conclude(get_url_outcome(result))

----------------------------------------------------------------------------
(* Page.set_window_size *)

\* The Page object itself, when it is passed as an argument.
self == [t |-> "Page"]

Sizes == {None, PyInt(800), PyInt(600)}

set_window_size_outcome(width, height) ==
    IF width = None /\ height = None
    THEN Outcome(<<Call("maximize_window", <<>>)>>, "", None)
    ELSE Outcome(<<Call("set_window_size", <<self, width, height>>)>>, "", None)

set_window_size ==
    \E width \in Sizes, height \in Sizes :
        /\ enter("set_window_size", <<width, height>>)
        /\ conclude(set_window_size_outcome(width, height))

----------------------------------------------------------------------------
(* Page.add_cookie, Page.add_cookies *)

CookieDicts == {Dict("a", "1"), Dict("a", "2"), Dict("b", "1")}
NotDicts == {None, Str(<<"a">>)}
CookieItems == CookieDicts \cup NotDicts
CookieLists == {List(items) : items \in SeqUpTo(CookieItems, MaxCookies)}
NotLists == {None, Str(<<"a">>), Dict("a", "1")}

\* driver.add_cookie(cookie): the jar holds the cookie, in place of any
\* cookie of the same name.
driver_add_cookie(jar, cookie) == {c \in jar : c.name # cookie.name} \cup {cookie}

\* self.add_cookie(cookie_dict): the outcome, and the jar afterwards.
self_add_cookie(cookie_dict, jar) ==
    IF isinstance(cookie_dict, "dict")
    THEN [calls |-> <<Call("add_cookie", <<cookie_dict>>)>>, raised |-> "",
          jar |-> driver_add_cookie(jar, cookie_dict)]
    ELSE [calls |-> <<>>, raised |-> "TypeError", jar |-> jar]

\* A loop that checks every element before it forwards any.
add_each_checked_first(items, i, jar) ==
    IF \E k \in i..Len(items) : ~isinstance(items[k], "dict")
    THEN [calls |-> <<>>, raised |-> "TypeError", jar |-> jar]
    ELSE [calls |-> [k \in 1..(Len(items) + 1 - i) |->
                        Call("add_cookie", <<items[k + i - 1]>>)],
          raised |-> "",
          jar |-> {c \in jar : \A k \in i..Len(items) : items[k].name # c.name}
                  \cup {items[k] : k \in {j \in i..Len(items) :
                            \A l \in (j + 1)..Len(items) : items[l].name # items[j].name}}]

\* The loop of add_cookies from position i on: each element goes through
\* self.add_cookie, and the first exception ends the loop.
RECURSIVE add_each(_, _, _)
add_each(items, i, jar) ==
    IF i > Len(items)
    THEN [calls |-> <<>>, raised |-> "", jar |-> jar]
    ELSE LET one == self_add_cookie(items[i], jar)
         IN  IF one.raised # ""
             THEN one
             ELSE LET rest == add_each(items, i + 1, one.jar)
                  IN  [calls |-> one.calls \o rest.calls, raised |-> rest.raised,
                       jar |-> rest.jar]

\* add_cookies without its else branch: anything but a list is ignored.
self_add_cookies_no_else(cookie_list, jar) ==
    IF isinstance(cookie_list, "list")
    THEN add_each(cookie_list.items, 1, jar)
    ELSE [calls |-> <<>>, raised |-> "", jar |-> jar]

self_add_cookies(cookie_list, jar) ==
    IF isinstance(cookie_list, "list")
    THEN add_each(cookie_list.items, 1, jar)
    ELSE [calls |-> <<>>, raised |-> "TypeError", jar |-> jar]

\* A cookie method's effect on the state.
store(done) ==
    /\ calls' = done.calls
    /\ raised' = done.raised
    /\ ret' = None
    /\ cookies' = done.jar
    /\ UNCHANGED <<current_context, contexts>>

add_cookie ==
    \E cookie_dict \in CookieItems \cup {List(<<>>)} :
        /\ enter("add_cookie", <<cookie_dict>>)
        /\ store(self_add_cookie(cookie_dict, cookies))

add_cookies ==
    \E cookie_list \in CookieLists \cup NotLists :
        /\ enter("add_cookies", <<cookie_list>>)
        /\ store(self_add_cookies(cookie_list, cookies))

----------------------------------------------------------------------------
(* Page.delete_cookie, Page.delete_all_cookies *)

\* The names a caller asks to delete: those of the cookies above, held as
\* str values, and one that no cookie has.
CookieNames == {Str(<<"a">>), Str(<<"b">>), Str(<<"c">>)}

\* driver.delete_cookie(name): the jar loses the cookie of that name, if it
\* holds one.
driver_delete_cookie(jar, name) == {c \in jar : Str(<<c.name>>) # name}

\* driver.delete_all_cookies(): the jar is empty.
driver_delete_all_cookies(jar) == {}

delete_cookie ==
    \E name \in CookieNames :
        /\ enter("delete_cookie", <<name>>)
        /\ store([calls |-> <<Call("delete_cookie", <<name>>)>>, raised |-> "",
                  jar |-> driver_delete_cookie(cookies, name)])

delete_all_cookies ==
    /\ enter("delete_all_cookies", <<>>)
    /\ store([calls |-> <<Call("delete_all_cookies", <<>>)>>, raised |-> "",
              jar |-> driver_delete_all_cookies(cookies)])

----------------------------------------------------------------------------
(* Specification of the browser methods *)

InitBrowser ==
    /\ current_context = NATIVE_APP
    /\ contexts = <<NATIVE_APP>>
    /\ cookies = {}
    /\ entry = [current_context |-> current_context, cookies |-> cookies,
                op |-> "__init__", raised |-> ""]
    /\ op = Method("__init__", <<>>)
    /\ calls = <<>>
    /\ raised = ""
    /\ ret = None

NextBrowser ==
    \/ execute_script
    \/ window_scroll
    \/ get_title
    \/ get_url
    \/ set_window_size
    \/ add_cookie
    \/ add_cookies
    \/ delete_cookie
    \/ delete_all_cookies

SpecBrowser == InitBrowser /\ [][NextBrowser]_vars

----------------------------------------------------------------------------
(* Page.top *)

\* Page.sleep(sec): time.sleep(sec).
sleep(sec) == Call("time.sleep", <<sec>>)

\* The pause between press and release: 0.1 second.
pause_duration == [t |-> "float", repr |-> "0.1"]

\* The settle duration of a tap when the caller gives none.
default_sec == 1

\* The tap with the sleep taken before the perform.
top_events_sleep_first(x, y, sec) ==
    <<Call("move_to_location", <<x, y>>),
      Call("pointer_down", <<>>),
      Call("pause", <<[t |-> "float", repr |-> "0.1"]>>),
      Call("release", <<>>),
      Call("time.sleep", <<sec>>),
      Call("perform", <<>>)>>

\* The events of top(x, y, sec), in the order the method produces them: the
\* pointer actions queued on the touch pointer, the perform that sends
\* them, and the sleep.
top_events(x, y, sec) ==
    <<Call("move_to_location", <<x, y>>),
      Call("pointer_down", <<>>),
      Call("pause", <<pause_duration>>),
      Call("release", <<>>),
      Call("perform", <<>>),
      sleep(sec)>>

Omitted == [t |-> "omitted"]

top ==
    \E x \in 0..MaxCoord, y \in 0..MaxCoord,
       given \in {Omitted} \cup {PyInt(n) : n \in 0..MaxSec} :
        LET sec == IF given = Omitted THEN PyInt(default_sec) ELSE given
            args == IF given = Omitted THEN <<PyInt(x), PyInt(y)>>
                    ELSE <<PyInt(x), PyInt(y), given>>
        IN  /\ enter("top", args)
            /\ conclude(Outcome(top_events(PyInt(x), PyInt(y), sec), "", None))

InitTap == InitBrowser

NextTap == top

SpecTap == InitTap /\ [][NextTap]_vars

----------------------------------------------------------------------------
(* Properties *)

IsSwitch(c) == c.name = "switch_to.context"

\* The context switches a method issued, in order, as the names switched to.
Switched(log) ==
    LET switches == SelectSeq(log, IsSwitch)
    IN  [k \in 1..Len(switches) |-> switches[k].args[1]]

\* The names of the calls a method issued, in order.
Names(log) == [k \in 1..Len(log) |-> log[k].name]

HasWebview(name) == Contains(WEBVIEW, name.s)

\* The positions of the available contexts whose name contains "WEBVIEW".
WebviewPositions == {i \in 1..Len(contexts) : HasWebview(contexts[i])}

WebCalledWithoutContext == op = Method("switch_to_web", <<None>>)

\* C1: switch_to_web() without a context, entered in a context whose name
\* does not contain "WEBVIEW" while some available context's name does,
\* reads the available contexts and issues exactly one context switch, to
\* the first available context in listed order whose name contains
\* "WEBVIEW"; no later match is switched to.
C1_FirstWebviewOnly ==
    (/\ WebCalledWithoutContext
     /\ ~HasWebview(entry.current_context)
     /\ WebviewPositions # {})
    => \E i \in WebviewPositions :
          /\ \A j \in WebviewPositions : i <= j
          /\ Switched(calls) = <<contexts[i]>>
          /\ Names(calls) = <<"current_context", "contexts", "switch_to.context">>
          /\ raised = ""
          /\ current_context = contexts[i]

\* C1 happens: two different available contexts match, and the driver is in
\* the first of them, not in the last.
C1_Witness ==
    /\ WebCalledWithoutContext
    /\ ~HasWebview(entry.current_context)
    /\ \E i, j \in WebviewPositions : i < j /\ contexts[i] # contexts[j]
    /\ Switched(calls) = <<contexts[1]>>
    /\ current_context = WEBVIEW_2

\* C2: switch_to_web() without a context, entered in a context whose name
\* does not contain "WEBVIEW" while no available context's name does, raises
\* NameError, issues no context switch and leaves the driver in the context
\* it was in.
C2_NoWebviewFound ==
    (/\ WebCalledWithoutContext
     /\ ~HasWebview(entry.current_context)
     /\ WebviewPositions = {})
    => /\ raised = "NameError"
       /\ Switched(calls) = <<>>
       /\ current_context = entry.current_context

\* C2 happens: the available contexts are near misses of "WEBVIEW".
C2_Witness ==
    /\ WebCalledWithoutContext
    /\ raised = "NameError"
    /\ Len(contexts) >= 2
    /\ \E i, j \in 1..Len(contexts) : contexts[i] = WEBVIE /\ contexts[j] = webview_lower
    /\ current_context = NATIVE_APP

\* C3: switch_to_web() without a context, entered in a context whose name
\* contains "WEBVIEW", only reads the current context: it issues no context
\* switch, does not read the available contexts, raises nothing and leaves
\* the driver in the context it was in.
C3_AlreadyInWebview ==
    (WebCalledWithoutContext /\ HasWebview(entry.current_context))
    => /\ Names(calls) = <<"current_context">>
       /\ raised = ""
       /\ current_context = entry.current_context

\* C3 happens: the driver stays in a web view although another web view is
\* listed first.
C3_Witness ==
    /\ WebCalledWithoutContext
    /\ entry.current_context = X_WEBVIEW
    /\ current_context = X_WEBVIEW
    /\ contexts # <<>>
    /\ contexts[1] = WEBVIEW_1
    /\ Switched(calls) = <<>>

\* C4: switch_to_web(context) with a context other than None issues exactly
\* one context switch, to that very name, whatever the current context is
\* and whether or not the name contains "WEBVIEW" or is available; it never
\* raises NameError.
C4_ExplicitContext ==
    (op.name = "switch_to_web" /\ op.args[1] # None)
    => /\ Switched(calls) = <<op.args[1]>>
       /\ raised # "NameError"

\* C4 happens: from a web view, an explicit switch to a context that is no
\* web view.
C4_Witness ==
    /\ op = Method("switch_to_web", <<FLUTTER>>)
    /\ HasWebview(entry.current_context)
    /\ Switched(calls) = <<FLUTTER>>
    /\ current_context = FLUTTER

\* C5: set_window_size(width, height) maximizes the window when both are
\* None, and otherwise calls the driver's set_window_size with exactly the
\* two arguments (width, height).
C5_ForwardsWidthHeight ==
    op.name = "set_window_size"
    => IF op.args[1] = None /\ op.args[2] = None
       THEN Names(calls) = <<"maximize_window">>
       ELSE /\ Names(calls) = <<"set_window_size">>
            /\ calls[1].args = <<op.args[1], op.args[2]>>

\* The ordered event names of a tap.
TapOrder ==
    <<"move_to_location", "pointer_down", "pause", "release", "perform", "time.sleep">>

\* C6: top(x, y, sec) produces, in this order, pointer move to (x, y),
\* pointer down, pause, pointer release, perform, and then a sleep of sec
\* seconds (1 when sec is not given); no sleep precedes the perform.
C6_TapOrder ==
    op.name = "top"
    => /\ Names(calls) = TapOrder
       /\ calls[1].args = <<op.args[1], op.args[2]>>
       /\ calls[6].args = <<IF Len(op.args) = 3 THEN op.args[3] ELSE PyInt(1)>>
       /\ \A i \in 1..Len(calls) :
             calls[i].name = "time.sleep"
             => \E j \in 1..(i - 1) : calls[j].name = "perform"

\* C6 happens: a tap without sec sleeps the default second after the perform.
C6_Witness ==
    /\ op = Method("top", <<PyInt(MaxCoord), PyInt(0)>>)
    /\ Len(calls) = 6
    /\ calls[1] = Call("move_to_location", <<PyInt(MaxCoord), PyInt(0)>>)
    /\ calls[5].name = "perform"
    /\ calls[6] = Call("time.sleep", <<PyInt(1)>>)

\* C7: add_cookie(c) with c not a dict and add_cookies(l) with l not a list
\* raise TypeError without any call to the driver's add_cookie, so that the
\* cookie jar is as it was; add_cookie(c) with c a dict calls the driver's
\* add_cookie exactly once, with c.
C7_CookieTypes ==
    /\ (op.name = "add_cookie" /\ op.args[1].t # "dict")
       => raised = "TypeError" /\ calls = <<>> /\ cookies = entry.cookies
    /\ (op.name = "add_cookies" /\ op.args[1].t # "list")
       => raised = "TypeError" /\ calls = <<>> /\ cookies = entry.cookies
    /\ (op.name = "add_cookie" /\ op.args[1].t = "dict")
       => /\ calls = <<Call("add_cookie", <<op.args[1]>>)>>
          /\ raised = ""
          /\ op.args[1] \in cookies

\* C7 happens: add_cookies is given a single dict while the jar holds
\* cookies.
C7_Witness ==
    /\ op = Method("add_cookies", <<Dict("a", "1")>>)
    /\ raised = "TypeError"
    /\ entry.cookies = {Dict("a", "2"), Dict("b", "1")}
    /\ cookies = entry.cookies

\* The value the driver answered to the single call a method issued.
Answer == calls[1].result

\* C8: execute_script(js, *args) with js None raises ValueError without
\* calling the driver; otherwise it calls the driver's execute_script exactly
\* once with (js, *args) and returns what the driver answered.  get_title,
\* get_url and window_scroll each issue exactly one driver execute_script.
C8_ExecuteScript ==
    /\ (op.name = "execute_script" /\ op.args[1] = None)
       => raised = "ValueError" /\ calls = <<>>
    /\ (op.name = "execute_script" /\ op.args[1] # None)
       => /\ Names(calls) = <<"execute_script">>
          /\ calls[1].args = op.args
          /\ raised = ""
          /\ ret = Answer
    /\ op.name \in {"get_title", "get_url", "window_scroll"}
       => /\ Names(calls) = <<"execute_script">>
          /\ Len(calls[1].args) = 1
          /\ raised = ""
          /\ op.name # "window_scroll" => ret = Answer

\* C8 happens: a script with arguments returns the driver's answer.
C8_Witness ==
    /\ op = Method("execute_script", <<alert_js, PyInt(1), Str(<<"a">>)>>)
    /\ calls = <<Answered("execute_script", <<alert_js, PyInt(1), Str(<<"a">>)>>, PyInt(3))>>
    /\ ret = PyInt(3)

\* The positions of a cookie list that hold something other than a dict.
NotDictPositions(items) == {i \in 1..Len(items) : items[i].t # "dict"}

\* The number of elements of a cookie list that precede the first element
\* that is not a dict (all of them when every element is a dict).
Preceding(items) ==
    IF NotDictPositions(items) = {}
    THEN Len(items)
    ELSE (CHOOSE i \in NotDictPositions(items) :
             \A j \in NotDictPositions(items) : i <= j) - 1

\* C9: add_cookies(l) with l a list forwards the elements to the driver's
\* add_cookie one at a time in list order; when some element is not a dict,
\* TypeError is raised after exactly the elements before the first such
\* element have been forwarded, and none after it.
C9_PartialCookies ==
    (op.name = "add_cookies" /\ op.args[1].t = "list")
    => LET items == op.args[1].items
       IN  /\ calls = [k \in 1..Preceding(items) |-> Call("add_cookie", <<items[k]>>)]
           /\ raised = IF NotDictPositions(items) = {} THEN "" ELSE "TypeError"
           /\ Preceding(items) > 0 => items[Preceding(items)] \in cookies

\* C9 happens: a failed add_cookies has changed the cookie jar.
C9_Witness ==
    /\ op = Method("add_cookies", <<List(<<Dict("b", "1"), None>>)>>)
    /\ raised = "TypeError"
    /\ entry.cookies = {Dict("a", "1")}
    /\ cookies = {Dict("a", "1"), Dict("b", "1")}

\* The target of switch_to_app and of switch_to_flutter.
Target(method) == IF method = "switch_to_app" THEN NATIVE_APP ELSE FLUTTER

AppOrFlutter == {"switch_to_app", "switch_to_flutter"}

\* After switch_to_app or switch_to_flutter: a switch was issued exactly when
\* the driver was not in the target on entry, it was a single switch to the
\* target, and the driver is in the target when the method returned.
C10_SwitchOnlyWhenNeeded ==
    op.name \in AppOrFlutter
    => /\ Switched(calls) =
            IF entry.current_context = Target(op.name) THEN <<>> ELSE <<Target(op.name)>>
       /\ raised = "" => current_context = Target(op.name)

\* The same one of the two called again after it returned: at most one
\* switch over the two calls.
C10_TwiceInARow ==
    (op.name \in AppOrFlutter /\ raised = "" /\ op'.name = op.name)
    => Len(Switched(calls)) + Len(Switched(calls')) <= 1

\* C10: in any sequence of switch_to_app and switch_to_flutter calls a
\* context switch is issued only when the current context differs from the
\* target; called with the target current, neither issues a switch; after
\* either returns the current context is its target; so the same one called
\* twice in a row, the first returning, issues at most one switch.
C10_AppFlutter == []C10_SwitchOnlyWhenNeeded /\ [][C10_TwiceInARow]_vars

\* C10 happens: switch_to_flutter, called right after a switch_to_flutter
\* that returned, finds the driver in FLUTTER and issues nothing.
C10_Witness ==
    /\ op = Method("switch_to_flutter", <<>>)
    /\ entry.op = "switch_to_flutter"
    /\ entry.raised = ""
    /\ entry.current_context = FLUTTER
    /\ current_context = FLUTTER
    /\ Names(calls) = <<"current_context">>

====
